---- MODULE Spec2Model ----
(***************************************************************************)
(* Model of the materials-investigator closed loop:                        *)
(*   Investigator.run        (src/src/investigator/agent.py)               *)
(*   EventStore              (src/src/investigator/store.py)               *)
(*   SyntheticOracle         (src/src/investigator/tools/synthetic_oracle.py) *)
(*   Budget and the payload models (src/src/investigator/types.py)         *)
(*                                                                         *)
(* Floats are modelled as exact fixed-point integers: the real number x is *)
(* the integer x * Scale.  Candidate identifiers are the integers          *)
(* 1..NumCands, ordered as the candidate strings are.  A Python dict is a  *)
(* sequence of [k, v] records in insertion order.  A row of the log keeps  *)
(* its payload as the structure json.dumps received; the informational ts  *)
(* column is left out.  uuid4 values are numbered in the order drawn.      *)
(***************************************************************************)
EXTENDS Integers, Sequences, FiniteSets, TLC

\* ------------------------------------------------------------------ bounds
MaxCalls == 3
MaxUsed0 == 1
MaxConcCalls == 2
MaxPreemptions == 2
NumCands == 12
NumSeeds == 2
NumProcs == 2

Runs == 1..2
Cands == 1..NumCands
Seeds == 0..(NumSeeds - 1)
Procs == 0..(NumProcs - 1)

None == "None"

\* ------------------------------------------------------- fixed-point reals
RECURSIVE Pow2(_)
Pow2(n) == IF n = 0 THEN 1 ELSE 2 * Pow2(n - 1)

\* one tenth, as a fixed-point integer; every stored value stays exact under
\* up to MaxCalls halvings
Tenth == Pow2(MaxCalls)
Scale == 10 * Tenth

Abs(x) == IF x < 0 THEN -x ELSE x

\* ------------------------------------------------------------ Python dicts
DictKeys(d) == { d[i].k : i \in 1..Len(d) }
DictHas(d, key) == \E i \in 1..Len(d) : d[i].k = key
DictGet(d, key) == d[CHOOSE i \in 1..Len(d) : d[i].k = key].v
\* d[key] = val: an existing key keeps its position, a new one goes last
DictSet(d, key, val) ==
    IF DictHas(d, key)
    THEN [i \in 1..Len(d) |-> IF d[i].k = key THEN [k |-> key, v |-> val] ELSE d[i]]
    ELSE Append(d, [k |-> key, v |-> val])
\* d.get(key, default)
DictGetOr(d, key, default) == IF DictHas(d, key) THEN DictGet(d, key) ELSE default

\* --------------------------------------------------------- run parameters
\* constraints as the command line builds them (every key present); the
\* numeric fields are in tenths
Constraints(batch, smin, bmin, bmax, target, decay) ==
    [batch_size |-> batch, stability_min |-> smin, bandgap_min |-> bmin,
     bandgap_max |-> bmax, target_bandgap |-> target, belief_decay |-> decay]

\* the command line's constraints, with --belief-decay
CliConstraints(decay) == Constraints(12, -12, 10, 20, 15, decay)
\* a caller's constraints no synthetic measurement can satisfy
StrictConstraints == Constraints(8, 20, 10, 20, 15, 5)
ConstraintChoices == {CliConstraints(10), CliConstraints(5), StrictConstraints}

\* (fail_prob, corrupt_prob) in tenths
OracleChoices == {<<0, 0>>, <<5, 5>>, <<10, 0>>}

\* ------------------------------------------------- random.Random (abstract)
\* random.Random(seed) for the candidate generator: the generator state is
\* a residue, one step per proposed candidate
RandomSeed(seed) == seed % NumCands
RandomStep(s) == (s + 5) % NumCands
\* the candidate string built from one round of draws
CandidateOf(s) == s + 1

\* _propose_candidates(n, rng) -> [cands, rng]
RECURSIVE ProposeLoop(_, _, _)
ProposeLoop(n, rng, cands) ==
    IF n = 0 THEN [cands |-> cands, rng |-> rng]
    ELSE LET s == RandomStep(rng)
         IN  ProposeLoop(n - 1, s, Append(cands, CandidateOf(s)))

_propose_candidates(n, rng) == ProposeLoop(n, rng, << >>)

\* ------------------------------------------------------- SyntheticOracle
\* rng.uniform(-1.0, 1.0) of random.Random(h), in fifths, per seed h
UniformTable ==
    << 3, 5, 1, -1, 5, 1, -1, 1, 5, -1, 1, -4,
       0, -2, 4, 2, -3, -5, 0, 1, 5, -1, 2, 3 >>
\* the seeds h the model tells apart
HashMod == Len(UniformTable)

\* hash(str) is salted per interpreter process (PYTHONHASHSEED)
StrHash(salt, candidate) == (candidate + 6 * salt) % HashMod
\* hash((self.seed, candidate)) & 0xFFFFFFFF
TupleHash(salt, seed, candidate) == (12 * seed + StrHash(salt, candidate)) % HashMod

\* the stream of random.Random(h): random(), uniform(-1, 1), random(), gauss
\* a first draw that can reach 1.0
FailDrawInclusive(h) == (3 * h) % 11
\* first rng.random(), in tenths
FailDraw(h) == (3 * h) % 10
UniformDraw(h) == UniformTable[h + 1] * 2 * Tenth
\* second rng.random(), in tenths
CorruptDraw(h) == (7 * h + 2) % 10
\* rng.gauss(0.0, 0.75)
GaussDraw(h) == ((h % 3) - 1) * 5 * Tenth

_rng_for_candidate(salt, seed, candidate) == TupleHash(salt, seed, candidate)

\* the result record of one candidate
QueryOne(o, salt, c, prop) ==
    LET h == _rng_for_candidate(salt, o.seed, c)
        base == UniformDraw(h)
        value == IF prop = "stability" THEN base ELSE (Abs(base) * 5) \div 2
        noisy == IF CorruptDraw(h) < o.corrupt_prob THEN value + GaussDraw(h) ELSE value
    IN  IF FailDraw(h) < o.fail_prob
        THEN [ok |-> FALSE, error |-> "synthetic_failure"]
        ELSE IF prop \notin {"stability", "bandgap"}
        THEN [ok |-> FALSE, error |-> "unknown_property"]
        ELSE [ok |-> TRUE, value |-> noisy]

RECURSIVE QueryLoop(_, _, _, _, _)
QueryLoop(o, salt, candidates, prop, results) ==
    IF candidates = << >> THEN results
    ELSE QueryLoop(o, salt, Tail(candidates), prop,
                   DictSet(results, Head(candidates),
                           QueryOne(o, salt, Head(candidates), prop)))

\* SyntheticOracle.query_property(candidates, prop)
query_property(o, salt, candidates, prop) ==
    [property |-> prop, results |-> QueryLoop(o, salt, candidates, prop, << >>)]

\* ------------------------------------------------ Investigator: INTERPRET
TopK == 10

RECURSIVE MergeResultsNoSkip(_, _, _)
MergeResultsNoSkip(beliefs, results, prop) ==
    IF results = << >> THEN beliefs
    ELSE LET c == Head(results).k
             r == Head(results).v
         IN  MergeResultsNoSkip(
                DictSet(beliefs, c,
                        DictSet(DictGetOr(beliefs, c, << >>), prop,
                                IF r.ok THEN r.value ELSE 0)),
                Tail(results), prop)

\* for c, r in results.items(): if r.get("ok"): beliefs.setdefault(c, {})[prop] = value
RECURSIVE MergeResults(_, _, _)
MergeResults(beliefs, results, prop) ==
    IF results = << >> THEN beliefs
    ELSE LET c == Head(results).k
             r == Head(results).v
         IN  IF ~r.ok
             THEN MergeResults(beliefs, Tail(results), prop)
             ELSE MergeResults(
                    DictSet(beliefs, c,
                            DictSet(DictGetOr(beliefs, c, << >>), prop, r.value)),
                    Tail(results), prop)

\* the decay of a run that was given no belief_decay: 0.98
DecayValueDefault(x, decay) == (x * 98) \div 100

\* rec[k] *= decay
DecayValue(x, decay) == (x * decay) \div 10

\* for rec in beliefs.values(): for k in list(rec.keys()): rec[k] *= decay
DecayBeliefs(beliefs, decay) ==
    [i \in 1..Len(beliefs) |->
        [k |-> beliefs[i].k,
         v |-> [j \in 1..Len(beliefs[i].v) |->
                  [k |-> beliefs[i].v[j].k,
                   v |-> DecayValue(beliefs[i].v[j].v, decay)]]]]

FullyObserved(rec) == DictHas(rec, "stability") /\ DictHas(rec, "bandgap")

Score(rec, target_bg) ==
    DictGet(rec, "stability") - Abs(DictGet(rec, "bandgap") - target_bg)

\* scored[c] = rec["stability"] - abs(rec["bandgap"] - target_bg)
RECURSIVE ScoreLoop(_, _, _)
ScoreLoop(beliefs, target_bg, scored) ==
    IF beliefs = << >> THEN scored
    ELSE LET c == Head(beliefs).k
             rec == Head(beliefs).v
         IN  ScoreLoop(Tail(beliefs), target_bg,
                       IF FullyObserved(rec)
                       THEN DictSet(scored, c, Score(rec, target_bg))
                       ELSE scored)

Scored(beliefs, constraints) ==
    ScoreLoop(beliefs, constraints.target_bandgap * Tenth, << >>)

\* the key function of the sort: key=lambda kv: kv[1], reverse=True
Before(a, b) == a.v >= b.v

\* one insertion of a stable sort: x goes after every item that may stay
\* before it
RECURSIVE InsertSorted(_, _)
InsertSorted(sorted, x) ==
    IF sorted = << >> THEN << x >>
    ELSE IF Before(Head(sorted), x)
         THEN << Head(sorted) >> \o InsertSorted(Tail(sorted), x)
         ELSE << x >> \o sorted

\* sorted(items, key=..., reverse=True): stable, equal keys keep dict order
RECURSIVE SortedDesc(_, _)
SortedDesc(items, acc) ==
    IF items = << >> THEN acc
    ELSE SortedDesc(Tail(items), InsertSorted(acc, Head(items)))

TakeOneMore(seq, n) == SubSeq(seq, 1, IF Len(seq) < n + 1 THEN Len(seq) ELSE n + 1)

\* [:10]
Take(seq, n) == SubSeq(seq, 1, IF Len(seq) < n THEN Len(seq) ELSE n)

\* dict(sorted(scored.items(), key=lambda kv: kv[1], reverse=True)[:10])
UpdatedBeliefs(scored) == Take(SortedDesc(scored, << >>), TopK)

\* a stop check that reads a property the record lacks as a passing value
RecMeetsDefaults(rec, constraints) ==
    /\ DictGetOr(rec, "stability", 0) >= constraints.stability_min * Tenth
    /\ constraints.bandgap_min * Tenth
          <= DictGetOr(rec, "bandgap", constraints.target_bandgap * Tenth)
    /\ DictGetOr(rec, "bandgap", constraints.target_bandgap * Tenth)
          <= constraints.bandgap_max * Tenth

\* one record of the stop check
RecMeets(rec, constraints) ==
    /\ FullyObserved(rec)
    /\ DictGet(rec, "stability") >= constraints.stability_min * Tenth
    /\ constraints.bandgap_min * Tenth <= DictGet(rec, "bandgap")
    /\ DictGet(rec, "bandgap") <= constraints.bandgap_max * Tenth

MeetsAmongReported(beliefs, constraints) ==
    \E i \in 1..Len(beliefs) :
        /\ RecMeets(beliefs[i].v, constraints)
        /\ DictHas(UpdatedBeliefs(Scored(beliefs, constraints)), beliefs[i].k)

\* Investigator._meets_constraints
_meets_constraints(beliefs, constraints) ==
    \E i \in 1..Len(beliefs) : RecMeets(beliefs[i].v, constraints)

\* ------------------------------------------------------------------ state
VARIABLES
    events,       \* the rows of table "events", in rowid order
    seq,          \* the AUTOINCREMENT counter of the table
    uuid,         \* number of uuid4() values drawn so far
    pc,           \* where each run is: idle, loop, design, execute,
                  \* interpret, stop, done (returned), failed (raised)
    run_id,       \* the run's identifier (0 before run is entered)
    hashseed,     \* the string-hash salt of the process executing the run
    oracle,       \* the run's SyntheticOracle: seed, fail_prob, corrupt_prob
    seed,         \* the seed argument of run
    budget0,      \* the Budget as the caller passed it
    budget,       \* the caller's Budget object, mutated by run
    constraints,  \* the constraints argument of run
    rng, beliefs, step, candidates, prop, raw, hypothesis,  \* locals of run
    raised,       \* the exception that ended the run, if one did
    oracleCalls,  \* the calls each oracle has received
    driver,       \* how the runs are launched: grid or concurrent
    last,         \* the run that took the latest step (0: none yet)
    preemptions,  \* how often a run was preempted by another one
    replay        \* summarize_run: the rows it loaded, its locals, its result

vars == << events, seq, uuid, pc, run_id, hashseed, oracle, seed, budget0,
           budget, constraints, rng, beliefs, step, candidates, prop, raw,
           hypothesis, raised, oracleCalls, driver, last, preemptions,
           replay >>

params == << hashseed, oracle, seed, budget0, constraints, driver >>
locals == << rng, beliefs, step, candidates, prop, raw, hypothesis >>

\* Budget(max_tool_calls=m, tool_calls_used=u)
Budget(m, u) == [max_tool_calls |-> m, tool_calls_used |-> u]

InitCommon ==
    /\ events = << >>
    /\ seq = 0
    /\ uuid = 0
    /\ pc = [r \in Runs |-> "idle"]
    /\ run_id = [r \in Runs |-> 0]
    /\ rng = [r \in Runs |-> 0]
    /\ beliefs = [r \in Runs |-> << >>]
    /\ step = [r \in Runs |-> 0]
    /\ candidates = [r \in Runs |-> << >>]
    /\ prop = [r \in Runs |-> None]
    /\ raw = [r \in Runs |-> None]
    /\ hypothesis = [r \in Runs |-> 0]
    /\ raised = [r \in Runs |-> None]
    /\ oracleCalls = [r \in Runs |-> << >>]
    /\ last = 0
    /\ preemptions = 0

\* the locals of summarize_run before its loop
Summary0 ==
    [step_counts |-> << >>, best_score |-> << >>, first_valid_step |-> << >>,
     stagnation |-> 0, max_stagnation |-> 0, step_idx |-> 0]

\* summarize_run is not running
NoReplay ==
    [pc |-> "idle", run_id |-> 0, events |-> << >>, acc |-> Summary0,
     result |-> << >>]

\* the command line seeds the oracle and the run with the same --seed
Oracle(sd, fc) == [seed |-> sd, fail_prob |-> fc[1], corrupt_prob |-> fc[2]]

\* the grid driver: the same invocation repeated, one run after the other,
\* each run in an interpreter process of its own; the caller's Budget starts
\* within its cap
Init ==
    /\ InitCommon
    /\ driver = "grid"
    /\ replay = NoReplay
    /\ \E sd \in Seeds : seed = [r \in Runs |-> sd]
    /\ \E fc \in OracleChoices : oracle = [r \in Runs |-> Oracle(seed[r], fc)]
    /\ hashseed \in [Runs -> Procs]
    /\ hashseed[1] = 0
    /\ \E m \in 0..MaxCalls, u \in 0..MaxUsed0 :
          /\ u <= m
          /\ budget0 = [r \in Runs |-> Budget(m, u)]
    /\ budget = budget0
    /\ \E c \in ConstraintChoices : constraints = [r \in Runs |-> c]

\* the same invocation started several times at once on one log
InitConc ==
    /\ InitCommon
    /\ driver = "concurrent"
    /\ replay = NoReplay
    /\ seed = [r \in Runs |-> 0]
    /\ oracle = [r \in Runs |-> Oracle(0, <<0, 0>>)]
    /\ hashseed = [r \in Runs |-> 0]
    /\ \E m \in 0..MaxConcCalls : budget0 = [r \in Runs |-> Budget(m, 0)]
    /\ budget = budget0
    /\ constraints = [r \in Runs |-> CliConstraints(10)]

\* ------------------------------------------------------------- EventStore
\* the row INSERT adds: id is the AUTOINCREMENT value
Row(rid, stepKind, payload) ==
    [id |-> seq + 1, run_id |-> rid, step |-> stepKind, payload |-> payload]

\* EventStore.append when INSERT and commit succeed
StoreAppend(rid, stepKind, payload) ==
    /\ events' = Append(events, Row(rid, stepKind, payload))
    /\ seq' = seq + 1

\* EventStore.append raises: nothing is written
StoreAppendRaises == UNCHANGED << events, seq >>

\* the rows of every run: the SELECT without its WHERE clause
RowsInAnyRun(ev, rid) == ev

\* the rows of SELECT ... WHERE run_id=? ORDER BY id ASC, over table ev
RowsIn(ev, rid) == SelectSeq(ev, LAMBDA row : row.run_id = rid)
RowsOf(rid) == RowsIn(events, rid)

\* the rows newest first: ORDER BY id DESC
loadNewestFirst(rid) ==
    [i \in 1..Len(RowsOf(rid)) |->
        [step |-> RowsOf(rid)[Len(RowsOf(rid)) + 1 - i].step,
         payload |-> RowsOf(rid)[Len(RowsOf(rid)) + 1 - i].payload]]

\* EventStore.load(run_id): (step, payload) per row
load(rid) ==
    [i \in 1..Len(RowsOf(rid)) |->
        [step |-> RowsOf(rid)[i].step, payload |-> RowsOf(rid)[i].payload]]

\* ------------------------------------------------------------- scheduling
\* the grid driver launches a run only after the previous one returned
Launched(r) == \A q \in Runs : q < r => pc[q] = "done"

Running(r) == pc[r] \notin {"idle", "done", "failed"}

\* run r takes the next step; among concurrent runs, taking over from a run
\* that has not ended is a preemption
Scheduled(r) ==
    /\ last' = r
    /\ IF driver = "grid"
       THEN Launched(r) /\ UNCHANGED preemptions
       ELSE IF last \in Runs /\ last # r /\ Running(last)
            THEN preemptions < MaxPreemptions /\ preemptions' = preemptions + 1
            ELSE UNCHANGED preemptions

\* -------------------------------------------------------- Investigator.run
\* str(uuid.uuid4()): a value no earlier call returned
Uuid4 == uuid + 1

Swallow(r, exc, resume) ==
    /\ raised' = [raised EXCEPT ![r] = exc]
    /\ pc' = [pc EXCEPT ![r] = resume]

\* an exception raised inside run: no handler, it reaches the caller
Propagate(r, exc, resume) ==
    /\ raised' = [raised EXCEPT ![r] = exc]
    /\ pc' = [pc EXCEPT ![r] = "failed"]

\* run() is entered: run_id, rng, beliefs, step
Start(r) ==
    /\ pc[r] = "idle"
    /\ Scheduled(r)
    /\ run_id' = [run_id EXCEPT ![r] = Uuid4]
    /\ uuid' = Uuid4
    /\ rng' = [rng EXCEPT ![r] = RandomSeed(seed[r])]
    /\ beliefs' = [beliefs EXCEPT ![r] = << >>]
    /\ step' = [step EXCEPT ![r] = 0]
    /\ pc' = [pc EXCEPT ![r] = "loop"]
    /\ UNCHANGED << events, seq, params, replay, budget, candidates, prop, raw,
                    hypothesis, raised, oracleCalls >>

\* while True
LoopTestAlways(r) == TRUE

LoopTestInclusive(r) == budget[r].tool_calls_used <= budget[r].max_tool_calls

\* while budget.tool_calls_used < budget.max_tool_calls
LoopTest(r) == budget[r].tool_calls_used < budget[r].max_tool_calls

HypothesisPayload(hid, cands) ==
    [id |-> hid,
     statement |-> "Some candidates satisfy stability and bandgap constraints.",
     candidates |-> cands,
     assumptions |-> << "Synthetic oracle provides noisy but informative measurements." >>]

\* HYPOTHESIS: propose the batch, append the event
Hypothesis(r) ==
    /\ pc[r] = "loop"
    /\ Scheduled(r)
    /\ LoopTest(r)
    /\ LET p == _propose_candidates(constraints[r].batch_size, rng[r])
       IN  /\ candidates' = [candidates EXCEPT ![r] = p.cands]
           /\ rng' = [rng EXCEPT ![r] = p.rng]
           /\ hypothesis' = [hypothesis EXCEPT ![r] = Uuid4]
           /\ uuid' = Uuid4
           /\ \E ok \in BOOLEAN :
                IF ok
                THEN /\ StoreAppend(run_id[r], "HYPOTHESIS",
                                    HypothesisPayload(Uuid4, p.cands))
                     /\ pc' = [pc EXCEPT ![r] = "design"]
                     /\ UNCHANGED raised
                ELSE StoreAppendRaises /\ Propagate(r, "append", "design")
    /\ UNCHANGED << run_id, params, replay, budget, beliefs, step, prop, raw, oracleCalls >>

\* a design that measures stability in every iteration
TargetPropertyAlways(i) == "stability"

\* prop = "stability" if step % 2 == 0 else "bandgap"
TargetProperty(i) == IF i % 2 = 0 THEN "stability" ELSE "bandgap"

DesignPayload(did, hid, p, cands) ==
    [id |-> did, hypothesis_id |-> hid, target_property |-> p,
     candidates |-> cands,
     rationale |-> << "Measure ", p, " to reduce uncertainty." >>]

\* DESIGN: choose the property, append the event
Design(r) ==
    /\ pc[r] = "design"
    /\ Scheduled(r)
    /\ prop' = [prop EXCEPT ![r] = TargetProperty(step[r])]
    /\ uuid' = Uuid4
    /\ \E ok \in BOOLEAN :
         IF ok
         THEN /\ StoreAppend(run_id[r], "DESIGN",
                             DesignPayload(Uuid4, hypothesis[r],
                                           TargetProperty(step[r]), candidates[r]))
              /\ pc' = [pc EXCEPT ![r] = "execute"]
              /\ UNCHANGED raised
         ELSE StoreAppendRaises /\ Propagate(r, "append", "execute")
    /\ UNCHANGED << run_id, params, replay, budget, rng, beliefs, step, candidates,
                    raw, hypothesis, oracleCalls >>

ChargeTwice(b) == [b EXCEPT !.tool_calls_used = @ + 2]

\* the charge put off until the call has returned
ChargeAfterCall(b) == b

\* budget.tool_calls_used += 1
Charge(b) == [b EXCEPT !.tool_calls_used = @ + 1]

ExecutePayload(p, rawResult) ==
    [tool |-> "oracle.query_property", property |-> p, results |-> rawResult]

\* what the oracle sees of one call: its arguments and the caller's budget
OracleCall(r) ==
    [candidates |-> candidates[r], property |-> prop[r],
     tool_calls_used |-> budget[r].tool_calls_used + 1]

\* EXECUTE: charge the budget, call the oracle, append the event
Execute(r) ==
    /\ pc[r] = "execute"
    /\ Scheduled(r)
    /\ budget' = [budget EXCEPT ![r] = Charge(@)]
    /\ oracleCalls' = [oracleCalls EXCEPT ![r] = Append(@, OracleCall(r))]
    /\ \E outcome \in {"ok", "oracle_raises", "append_raises"} :
         CASE outcome = "ok" ->
                LET res == query_property(oracle[r], hashseed[r], candidates[r], prop[r])
                IN  /\ raw' = [raw EXCEPT ![r] = res]
                    /\ StoreAppend(run_id[r], "EXECUTE", ExecutePayload(prop[r], res))
                    /\ pc' = [pc EXCEPT ![r] = "interpret"]
                    /\ UNCHANGED raised
           [] outcome = "oracle_raises" ->
                /\ UNCHANGED raw
                /\ StoreAppendRaises
                /\ Propagate(r, "oracle", "interpret")
           [] outcome = "append_raises" ->
                /\ raw' = [raw EXCEPT ![r] =
                             query_property(oracle[r], hashseed[r], candidates[r], prop[r])]
                /\ StoreAppendRaises
                /\ Propagate(r, "append", "interpret")
    /\ UNCHANGED << uuid, run_id, params, replay, rng, beliefs, step, candidates, prop,
                    hypothesis >>

\* results = raw.get("results", {})
RawResults(rawResult) == rawResult.results

\* the belief record when the decay comes before the merge
InterpretBeliefsDecayFirst(b, rawResult, p, c) ==
    MergeResults(DecayBeliefs(b, c.belief_decay), RawResults(rawResult), p)

\* the belief record after merging the results and decaying every value
InterpretBeliefs(b, rawResult, p, c) ==
    DecayBeliefs(MergeResults(b, RawResults(rawResult), p), c.belief_decay)

InterpretPayload(iid, hid, b, c) ==
    [id |-> iid, hypothesis_id |-> hid,
     updated_beliefs |-> UpdatedBeliefs(Scored(b, c))]

\* INTERPRET: merge, decay, score, append the event
Interpret(r) ==
    /\ pc[r] = "interpret"
    /\ Scheduled(r)
    /\ LET b == InterpretBeliefs(beliefs[r], raw[r], prop[r], constraints[r])
       IN  /\ beliefs' = [beliefs EXCEPT ![r] = b]
           /\ uuid' = Uuid4
           /\ \E ok \in BOOLEAN :
                IF ok
                THEN /\ StoreAppend(run_id[r], "INTERPRET",
                                    InterpretPayload(Uuid4, hypothesis[r], b,
                                                     constraints[r]))
                     /\ pc' = [pc EXCEPT ![r] = "stop"]
                     /\ UNCHANGED raised
                ELSE StoreAppendRaises /\ Propagate(r, "append", "stop")
    /\ UNCHANGED << run_id, params, replay, budget, rng, step, candidates, prop, raw,
                    hypothesis, oracleCalls >>

UpdatePayload(reason, b) == [status |-> "done", reason |-> reason, budget |-> b]

\* the stop check holds
StopCheck(r) == _meets_constraints(beliefs[r], constraints[r])

ConstraintsMetNoReturn(r) ==
    /\ pc[r] = "stop"
    /\ Scheduled(r)
    /\ StopCheck(r)
    /\ StoreAppend(run_id[r], "UPDATE", UpdatePayload("constraints_met", budget[r]))
    /\ step' = [step EXCEPT ![r] = @ + 1]
    /\ pc' = [pc EXCEPT ![r] = "loop"]
    /\ UNCHANGED << uuid, run_id, params, replay, budget, rng, beliefs, candidates,
                    prop, raw, hypothesis, raised, oracleCalls >>

\* STOP CHECK holds: append UPDATE constraints_met and return run_id
ConstraintsMet(r) ==
    /\ pc[r] = "stop"
    /\ Scheduled(r)
    /\ StopCheck(r)
    /\ \E ok \in BOOLEAN :
         IF ok
         THEN /\ StoreAppend(run_id[r], "UPDATE",
                             UpdatePayload("constraints_met", budget[r]))
              /\ pc' = [pc EXCEPT ![r] = "done"]
              /\ UNCHANGED raised
         ELSE StoreAppendRaises /\ Propagate(r, "append", "done")
    /\ UNCHANGED << uuid, run_id, params, replay, budget, locals, oracleCalls >>

\* a loop that re-enters at DESIGN with the batch it already has
ContinueAtDesign(r) ==
    /\ pc[r] = "stop"
    /\ Scheduled(r)
    /\ ~StopCheck(r)
    /\ step' = [step EXCEPT ![r] = @ + 1]
    /\ pc' = [pc EXCEPT ![r] = "design"]
    /\ UNCHANGED << events, seq, uuid, run_id, params, replay, budget, rng, beliefs,
                    candidates, prop, raw, hypothesis, raised, oracleCalls >>

\* STOP CHECK fails: step += 1 and back to the loop test
Continue(r) ==
    /\ pc[r] = "stop"
    /\ Scheduled(r)
    /\ ~StopCheck(r)
    /\ step' = [step EXCEPT ![r] = @ + 1]
    /\ pc' = [pc EXCEPT ![r] = "loop"]
    /\ UNCHANGED << events, seq, uuid, run_id, params, replay, budget, rng, beliefs,
                    candidates, prop, raw, hypothesis, raised, oracleCalls >>

\* the loop test fails: append UPDATE budget_exhausted and return run_id
BudgetExhausted(r) ==
    /\ pc[r] = "loop"
    /\ Scheduled(r)
    /\ ~LoopTest(r)
    /\ \E ok \in BOOLEAN :
         IF ok
         THEN /\ StoreAppend(run_id[r], "UPDATE",
                             UpdatePayload("budget_exhausted", budget[r]))
              /\ pc' = [pc EXCEPT ![r] = "done"]
              /\ UNCHANGED raised
         ELSE StoreAppendRaises /\ Propagate(r, "append", "done")
    /\ UNCHANGED << uuid, run_id, params, replay, budget, locals, oracleCalls >>

RunStep(r) ==
    \/ Start(r)
    \/ Hypothesis(r)
    \/ Design(r)
    \/ Execute(r)
    \/ Interpret(r)
    \/ ConstraintsMet(r)
    \/ Continue(r)
    \/ BudgetExhausted(r)

Next == \E r \in Runs : RunStep(r)

Spec == Init /\ [][Next]_vars

SpecConc == InitConc /\ [][Next]_vars

\* ----------------------------------------------------------- summarize_run
\* the longest log summarize_run is given
MaxReplay == 3

\* rows a log can hold for a run, as load_events returns them: the payloads
\* the run writes, and payloads that lack a key
ReplayEvents ==
    { [step |-> "HYPOTHESIS", payload |-> [candidates |-> << >>]],
      [step |-> "INTERPRET", payload |-> [updated_beliefs |-> << >>]],
      [step |-> "INTERPRET",
       payload |-> [updated_beliefs |-> << [k |-> 1, v |-> 5 * Tenth] >>]],
      [step |-> "INTERPRET",
       payload |-> [updated_beliefs |-> << [k |-> 1, v |-> 3 * Tenth],
                                          [k |-> 2, v |-> -2 * Tenth] >>]],
      [step |-> "INTERPRET", payload |-> [hypothesis_id |-> 1]],
      [step |-> "UPDATE", payload |-> [status |-> "done", reason |-> "constraints_met"]],
      [step |-> "UPDATE", payload |-> [status |-> "done", reason |-> "budget_exhausted"]],
      [step |-> "UPDATE", payload |-> [status |-> "done"]] }

ReplayLogsOfLen(n) == [1..n -> ReplayEvents]
ReplayLogs == UNION { ReplayLogsOfLen(n) : n \in 0..MaxReplay }

\* payload.get(key, default)
PayloadGet(payload, key, default) ==
    IF key \in DOMAIN payload THEN payload[key] ELSE default

\* max(float(v) for v in beliefs.values())
MaxValue(d) ==
    CHOOSE x \in { d[i].v : i \in 1..Len(d) } :
        \A j \in 1..Len(d) : x >= d[j].v

\* one pass of the loop over the events
SummarizeEvent(acc, e) ==
    LET counted == [acc EXCEPT !.step_counts =
                        DictSet(@, e.step, DictGetOr(@, e.step, 0) + 1)]
        beliefs_ == PayloadGet(e.payload, "updated_beliefs", << >>)
        local_best == MaxValue(beliefs_)
        scored ==
            IF e.step = "INTERPRET" /\ beliefs_ # << >>
            THEN IF counted.best_score = << >>
                    \/ local_best > counted.best_score[1]
                 THEN [counted EXCEPT
                          !.best_score = << local_best >>,
                          !.first_valid_step =
                              IF @ = << >> THEN << counted.step_idx >> ELSE @,
                          !.stagnation = 0]
                 ELSE [counted EXCEPT
                          !.stagnation = @ + 1,
                          !.max_stagnation =
                              IF @ >= counted.stagnation + 1
                              THEN @ ELSE counted.stagnation + 1]
            ELSE counted
    IN  [scored EXCEPT !.step_idx = @ + 1]

\* the reason of the last UPDATE event, with the default of the missing key
\* and of the missing event
Termination(L) ==
    IF \E i \in 1..Len(L) : L[i].step = "UPDATE"
    THEN LET i == CHOOSE j \in 1..Len(L) :
                     /\ L[j].step = "UPDATE"
                     /\ \A k \in (j + 1)..Len(L) : L[k].step # "UPDATE"
         IN  PayloadGet(L[i].payload, "reason", "unknown")
    ELSE "unknown"

RECURSIVE SumValues(_)
SumValues(d) == IF d = << >> THEN 0 ELSE Head(d).v + SumValues(Tail(d))

\* the dictionary summarize_run returns
SummaryResult(rid, acc, L) ==
    [run_id |-> rid,
     best_score |-> acc.best_score,
     first_valid_step |-> acc.first_valid_step,
     max_stagnation |-> acc.max_stagnation,
     termination |-> Termination(L),
     total_steps |-> SumValues(acc.step_counts)]

RECURSIVE SummarizeLoop(_, _)
SummarizeLoop(acc, L) ==
    IF L = << >> THEN acc ELSE SummarizeLoop(SummarizeEvent(acc, Head(L)), Tail(L))

summarize_run(rid, L) == SummaryResult(rid, SummarizeLoop(Summary0, L), L)

\* summarize_run(run_id) is called on a log that holds any of the rows
InitSummary ==
    /\ InitCommon
    /\ driver = "replay"
    /\ seed = [r \in Runs |-> 0]
    /\ oracle = [r \in Runs |-> Oracle(0, <<0, 0>>)]
    /\ hashseed = [r \in Runs |-> 0]
    /\ budget0 = [r \in Runs |-> Budget(0, 0)]
    /\ budget = budget0
    /\ constraints = [r \in Runs |-> CliConstraints(10)]
    /\ \E L \in ReplayLogs :
          replay = [NoReplay EXCEPT !.pc = "loop", !.run_id = 1, !.events = L]

runState == << events, seq, uuid, pc, run_id, params, budget, locals, raised,
               oracleCalls, last, preemptions >>

\* for _, step, payload_json in events: ...
SummarizeStep ==
    /\ replay.pc = "loop"
    /\ replay.acc.step_idx < Len(replay.events)
    /\ replay' = [replay EXCEPT
                     !.acc = SummarizeEvent(@, replay.events[replay.acc.step_idx + 1])]
    /\ UNCHANGED runState

\* the scan for the UPDATE event and the return
SummarizeReturn ==
    /\ replay.pc = "loop"
    /\ replay.acc.step_idx = Len(replay.events)
    /\ replay' = [replay EXCEPT
                     !.pc = "returned",
                     !.result = << SummaryResult(replay.run_id, replay.acc,
                                                 replay.events) >>]
    /\ UNCHANGED runState

NextSummary == SummarizeStep \/ SummarizeReturn

SpecSummary == InitSummary /\ [][NextSummary]_vars

\* =================================================================== claims
\* what a reader of the log gets for run r
EventsOf(r) == load(run_id[r])

CountStep(L, kind) == Cardinality({ i \in 1..Len(L) : L[i].step = kind })

Returned(r) == pc[r] = "done"

\* the reason of the run's UPDATE event (of a run that returned)
ReasonOf(r) == EventsOf(r)[Len(EventsOf(r))].payload.reason

\* the belief record of run r holds a candidate within the constraints
Satisfied(r) ==
    \E i \in 1..Len(beliefs[r]) :
        LET rec == beliefs[r][i].v
            c == constraints[r]
        IN  /\ DictHas(rec, "stability")
            /\ DictHas(rec, "bandgap")
            /\ DictGet(rec, "stability") >= c.stability_min * Tenth
            /\ DictGet(rec, "bandgap") >= c.bandgap_min * Tenth
            /\ DictGet(rec, "bandgap") <= c.bandgap_max * Tenth

\* the step appended exactly the event (kind, payload) of run r
Appended(r, kind, payload) ==
    /\ Len(events') = Len(events) + 1
    /\ SubSeq(events', 1, Len(events)) = events
    /\ events'[Len(events')].run_id = run_id[r]
    /\ events'[Len(events')].step = kind
    /\ events'[Len(events')].payload = payload

\* C1: a run that returned has exactly one UPDATE event in the log, and that
\* event is the last event of the run, whatever else is appended later.
C1_OneTerminalUpdate ==
    \A r \in Runs :
        Returned(r) =>
            LET L == EventsOf(r)
            IN  /\ Len(L) > 0
                /\ L[Len(L)].step = "UPDATE"
                /\ CountStep(L, "UPDATE") = 1

\* a run returned after at least one iteration, and a later run appended to
\* the same log after it
C1_Witness ==
    \E r \in Runs :
        /\ Returned(r)
        /\ Len(EventsOf(r)) > 1
        /\ events[Len(events)].run_id # run_id[r]

C3_RunLocalPositions ==
    \A r \in Runs :
        LET R == RowsOf(run_id[r])
        IN  \A i \in 1..Len(R) :
                /\ R[1].id \in {0, 1}
                /\ R[i].id = R[1].id + (i - 1)

\* C4: at the end of an iteration the run ends with UPDATE constraints_met
\* exactly when some candidate of the whole decayed belief record is within
\* the constraints (so in the first such iteration); otherwise it goes on
\* without an event; and a run that returned appends nothing more.
C4_StopsWhenSatisfied ==
    [][\A r \in Runs :
          /\ (pc[r] = "stop" /\ pc'[r] # "stop") =>
                IF Satisfied(r)
                THEN \/ pc'[r] = "failed" /\ events' = events
                     \/ /\ pc'[r] = "done"
                        /\ Appended(r, "UPDATE",
                                    [status |-> "done", reason |-> "constraints_met",
                                     budget |-> budget[r]])
                ELSE pc'[r] = "loop" /\ events' = events
          /\ (pc[r] # "stop" /\ pc'[r] = "done" /\ pc[r] # "done") =>
                events'[Len(events')].payload.reason # "constraints_met"
          /\ pc[r] = "done" =>
                /\ pc'[r] = "done"
                /\ RowsIn(events', run_id[r]) = RowsOf(run_id[r])
      ]_vars

\* the candidates UPDATE constraints_met rests on are all outside the
\* reported updated_beliefs of the final INTERPRET event
C4_Witness ==
    \E r \in Runs :
        /\ Returned(r)
        /\ ReasonOf(r) = "constraints_met"
        /\ LET L == EventsOf(r)
               ub == L[Len(L) - 1].payload.updated_beliefs
           IN  /\ L[Len(L) - 1].step = "INTERPRET"
               /\ Len(ub) = 10
               /\ \A i \in 1..Len(ub) :
                     ~RecMeets(DictGet(beliefs[r], ub[i].k), constraints[r])

\* C5: no EXECUTE step (charge, then Measurement Source call) begins with
\* tool_calls_used at or above max_tool_calls; a run at the loop test with an
\* exhausted budget does nothing but append UPDATE budget_exhausted and
\* return (or raise from that append); a run that returned has reason
\* budget_exhausted exactly when its belief record is not within the
\* constraints, and then its budget is exhausted.
C5_BudgetExhaustedStops ==
    [][\A r \in Runs :
          /\ Len(oracleCalls'[r]) > Len(oracleCalls[r]) =>
                budget[r].tool_calls_used < budget[r].max_tool_calls
          /\ (/\ pc[r] = "loop"
              /\ budget[r].tool_calls_used >= budget[r].max_tool_calls
              /\ pc'[r] # "loop") =>
                \/ pc'[r] = "failed" /\ events' = events
                \/ /\ pc'[r] = "done"
                   /\ oracleCalls'[r] = oracleCalls[r]
                   /\ Appended(r, "UPDATE",
                               [status |-> "done", reason |-> "budget_exhausted",
                                budget |-> budget[r]])
          /\ (pc'[r] = "done" /\ pc[r] # "done") =>
                LET reason == events'[Len(events')].payload.reason
                IN  /\ (reason = "budget_exhausted") <=> ~Satisfied(r)
                    /\ reason = "budget_exhausted" =>
                          budget[r].tool_calls_used >= budget[r].max_tool_calls
      ]_vars

\* a run used its whole budget over several calls and ended budget_exhausted
C5_Witness ==
    \E r \in Runs :
        /\ Returned(r)
        /\ ReasonOf(r) = "budget_exhausted"
        /\ Len(oracleCalls[r]) >= 2
        /\ budget[r].tool_calls_used = budget[r].max_tool_calls

\* the inputs of two runs agree: seed, oracle parameters, constraints
\* (belief_decay among them) and budget
SameInputs(a, b) ==
    /\ seed[a] = seed[b]
    /\ oracle[a] = oracle[b]
    /\ constraints[a] = constraints[b]
    /\ budget0[a] = budget0[b]

\* the payloads of the run's events of one kind, in order
PayloadsOf(r, kind) ==
    LET L == SelectSeq(EventsOf(r), LAMBDA e : e.step = kind)
    IN  [i \in 1..Len(L) |-> L[i].payload]

\* the candidate batch of each HYPOTHESIS event
Batches(r) ==
    [i \in 1..Len(PayloadsOf(r, "HYPOTHESIS")) |->
        PayloadsOf(r, "HYPOTHESIS")[i].candidates]

\* what the Measurement Source returned in each EXECUTE step
Measurements(r) ==
    [i \in 1..Len(PayloadsOf(r, "EXECUTE")) |-> PayloadsOf(r, "EXECUTE")[i].results]

\* C6: two runs with identical inputs, also in two processes, have the same
\* candidate batch in every iteration, the same Measurement Source results
\* and the same termination reason.
C6_Deterministic ==
    \A a, b \in Runs :
        (SameInputs(a, b) /\ Returned(a) /\ Returned(b)) =>
            /\ Batches(a) = Batches(b)
            /\ Measurements(a) = Measurements(b)
            /\ ReasonOf(a) = ReasonOf(b)

\* C7: two runs with the same seed and parameters log the same payloads,
\* event by event, identifiers included.
C7_SamePayloads ==
    \A a, b \in Runs :
        (SameInputs(a, b) /\ Returned(a) /\ Returned(b)) =>
            [i \in 1..Len(EventsOf(a)) |-> EventsOf(a)[i].payload]
                = [i \in 1..Len(EventsOf(b)) |-> EventsOf(b)[i].payload]

\* the run has just appended an INTERPRET event
Interpreted(r) == pc[r] = "stop"

\* updated_beliefs of the run's latest event, and the candidates of the
\* belief record with both properties
LatestUpdatedBeliefs(r) == EventsOf(r)[Len(EventsOf(r))].payload.updated_beliefs

FullyObservedCands(r) ==
    { beliefs[r][i].k : i \in { j \in 1..Len(beliefs[r]) :
          /\ DictHas(beliefs[r][j].v, "stability")
          /\ DictHas(beliefs[r][j].v, "bandgap") } }

\* C8 as stated: in an INTERPRET event a candidate is in updated_beliefs if
\* and only if the belief record has both of its properties, and
\* updated_beliefs has at most 10 entries.
C8_Original ==
    \A r \in Runs :
        Interpreted(r) =>
            /\ DictKeys(LatestUpdatedBeliefs(r)) = FullyObservedCands(r)
            /\ Len(LatestUpdatedBeliefs(r)) <= 10

\* C8 amended: every candidate in updated_beliefs has both properties in the
\* belief record, no candidate is listed twice, and updated_beliefs has
\* min(10, number of fully observed candidates) entries: all of them when
\* there are at most 10, and 10 of them otherwise.
C8_ReportedAreFullyObserved ==
    \A r \in Runs :
        Interpreted(r) =>
            LET ub == LatestUpdatedBeliefs(r)
                n == Cardinality(FullyObservedCands(r))
            IN  /\ DictKeys(ub) \subseteq FullyObservedCands(r)
                /\ Cardinality(DictKeys(ub)) = Len(ub)
                /\ Len(ub) = IF n < 10 THEN n ELSE 10

\* an INTERPRET event of a belief record with more than 10 fully observed
\* candidates
C8_Witness ==
    \E r \in Runs :
        /\ Interpreted(r)
        /\ Cardinality(FullyObservedCands(r)) > 10
        /\ Len(LatestUpdatedBeliefs(r)) = 10

\* the score of a fully observed candidate of the belief record
ScoreOf(r, c) ==
    LET rec == DictGet(beliefs[r], c)
    IN  DictGet(rec, "stability")
          - Abs(DictGet(rec, "bandgap") - constraints[r].target_bandgap * Tenth)

\* candidate c with score x ranks before candidate d with score y
RanksBefore(c, x, d, y) == x > y \/ (x = y /\ c < d)

\* C9: updated_beliefs lists the top 10 by score, highest first, and of two
\* candidates with equal scores the one with the smaller identifier comes
\* first and is the one kept at the cut-off.
C9_TieBreakById ==
    \A r \in Runs :
        Interpreted(r) =>
            LET ub == LatestUpdatedBeliefs(r)
            IN  /\ \A i, j \in 1..Len(ub) :
                      i < j => RanksBefore(ub[i].k, ub[i].v, ub[j].k, ub[j].v)
                /\ \A c \in FullyObservedCands(r) \ DictKeys(ub) :
                      \A i \in 1..Len(ub) :
                          RanksBefore(ub[i].k, ub[i].v, c, ScoreOf(r, c))

\* C10: when an EventStore.append call of a run raises, the run ends with
\* that exception in the same step, having written nothing; from then on it
\* appends no event, issues no Measurement Source call and never returns.
C10_AppendFailureIsFatal ==
    [][\A r \in Runs :
          /\ raised'[r] = "append" => pc'[r] = "failed"
          /\ (raised[r] # "append" /\ raised'[r] = "append") => events' = events
          /\ raised[r] = "append" =>
                /\ raised'[r] = "append"
                /\ RowsIn(events', run_id[r]) = RowsOf(run_id[r])
                /\ oracleCalls'[r] = oracleCalls[r]
                /\ budget'[r] = budget[r]
      ]_vars

\* an append of a run raised after the run had logged events, and another
\* run went on appending to the log afterwards
C10_Witness ==
    \E r \in Runs :
        /\ raised[r] = "append"
        /\ pc[r] = "failed"
        /\ Len(EventsOf(r)) >= 1
        /\ last \in Runs
        /\ last # r
        /\ events[Len(events)].run_id = run_id[last]

\* belief record b has a value for property p of candidate c
HasBelief(b, c, p) == DictHas(b, c) /\ DictHas(DictGet(b, c), p)
BeliefOf(b, c, p) == DictGet(DictGet(b, c), p)

\* the INTERPRET step of run r is taken
InterpretStep(r) == pc[r] = "interpret" /\ pc'[r] # "interpret"

\* the factor the step multiplies every stored value with, in tenths
DecayOf(r) == constraints[r].belief_decay

\* C11: a result with ok:false does not abort the run (the INTERPRET step
\* ends at the stop check unless the log append raises), the belief record
\* gains no entry for that candidate and property from it, and a value
\* stored before for them is not overwritten: it only decays.
C11_FailedResultsExcluded ==
    [][\A r \in Runs :
          InterpretStep(r) =>
              /\ pc'[r] = "stop" \/ raised'[r] = "append"
              /\ \A i \in 1..Len(raw[r].results) :
                    LET c == raw[r].results[i].k
                        p == prop[r]
                    IN  ~raw[r].results[i].v.ok =>
                          /\ DictHas(beliefs'[r], c) <=> DictHas(beliefs[r], c)
                          /\ HasBelief(beliefs'[r], c, p) <=> HasBelief(beliefs[r], c, p)
                          /\ HasBelief(beliefs[r], c, p) =>
                                BeliefOf(beliefs'[r], c, p) * 10
                                    = BeliefOf(beliefs[r], c, p) * DecayOf(r)
      ]_vars

\* a run interpreted, in a later iteration, a batch in which some results
\* failed and others did not, and the failed candidates have no entry
C11_Witness ==
    \E r \in Runs :
        /\ pc[r] = "stop"
        /\ step[r] >= 1
        /\ \E i, j \in 1..Len(raw[r].results) :
              /\ ~raw[r].results[i].v.ok
              /\ raw[r].results[j].v.ok
              /\ ~DictHas(beliefs[r], raw[r].results[i].k)
              /\ DictHas(beliefs[r], raw[r].results[j].k)

IsPrefix(a, b) == Len(a) <= Len(b) /\ SubSeq(b, 1, Len(a)) = a

\* the kind of the event whose append returned to run r in this step, or
\* "none": the run moved on from a state that appends, without failing
AppendReturned(r) ==
    CASE pc[r] = "loop" /\ pc'[r] = "design" -> "HYPOTHESIS"
      [] pc[r] = "design" /\ pc'[r] = "execute" -> "DESIGN"
      [] pc[r] = "execute" /\ pc'[r] = "interpret" -> "EXECUTE"
      [] pc[r] = "interpret" /\ pc'[r] = "stop" -> "INTERPRET"
      [] pc[r] # "done" /\ pc'[r] = "done" -> "UPDATE"
      [] OTHER -> "none"

\* C12: once append has returned for an event, every later load of its
\* run_id returns it: over every step the log and each run's load only grow
\* at the end, earlier events stay as they were, and the event whose append
\* just returned is the last one load returns.
C12_AppendedEventsStay ==
    [][/\ IsPrefix(events, events')
       /\ \A r \in Runs :
             /\ IsPrefix(load(run_id[r]), load(run_id[r])')
             /\ AppendReturned(r) # "none" =>
                   /\ Len(load(run_id[r])') = Len(load(run_id[r])) + 1
                   /\ load(run_id[r])'[Len(load(run_id[r])')].step
                          = AppendReturned(r)
      ]_vars

\* a run has loaded back several of its events while another run's events
\* are in the same log
C12_Witness ==
    \E r, q \in Runs :
        /\ r # q
        /\ Len(load(run_id[r])) >= 5
        /\ Len(load(run_id[q])) >= 1
        /\ Returned(r)

Started(r) == pc[r] # "idle"

\* the steps of one iteration, in the order run appends their events
Cycle == << "HYPOTHESIS", "DESIGN", "EXECUTE", "INTERPRET" >>

\* the number of events run r has appended in its current iteration
AppendedInIteration(r) ==
    CASE pc[r] = "loop" -> 0
      [] pc[r] = "design" -> 1
      [] pc[r] = "execute" -> 2
      [] pc[r] = "interpret" -> 3
      [] pc[r] = "stop" -> 4

\* C13: runs with distinct run ids interleave their appends on one log; no
\* appended event is lost (every row of the log is loaded by exactly one
\* run) and each run's load returns that run's own events in the order it
\* appended them, with no event of another run.
C13_RunsIsolated ==
    /\ \A r, q \in Runs : Started(r) /\ Started(q) /\ r # q => run_id[r] # run_id[q]
    /\ Len(events) = seq
    /\ \A r, q \in Runs :
          Started(r) /\ Started(q) /\ r < q =>
              /\ Len(load(run_id[r])) + Len(load(run_id[q])) = Len(events)
              /\ \A i \in 1..Len(load(run_id[r])), j \in 1..Len(load(run_id[q])) :
                    /\ load(run_id[r])[i].step = "HYPOTHESIS"
                    /\ load(run_id[q])[j].step = "HYPOTHESIS"
                    => load(run_id[r])[i].payload.id # load(run_id[q])[j].payload.id
    /\ \A r \in Runs :
          Running(r) =>
              /\ Len(load(run_id[r])) = 4 * step[r] + AppendedInIteration(r)
              /\ \A i \in 1..Len(load(run_id[r])) :
                    load(run_id[r])[i].step = Cycle[((i - 1) % 4) + 1]

\* the rows of two running runs are interleaved in the log
C13_Witness ==
    /\ \A r \in Runs : Running(r)
    /\ \E j, k \in 2..Len(events) :
          /\ j < k
          /\ events[j].run_id # events[1].run_id
          /\ events[k].run_id = events[1].run_id

\* C14: with fail_prob = 1.0 every per-candidate result of every EXECUTE
\* event has ok false, the belief record is empty in every state of the
\* run, and a run that returns ends with reason "budget_exhausted".
C14_AlwaysFailing ==
    \A r \in Runs :
        oracle[r].fail_prob = 10 =>
            /\ beliefs[r] = << >>
            /\ \A i \in 1..Len(Measurements(r)) :
                  \A j \in 1..Len(Measurements(r)[i].results) :
                      ~Measurements(r)[i].results[j].v.ok
            /\ Returned(r) => ReasonOf(r) = "budget_exhausted"

\* a run with fail_prob = 1.0 returned after at least two measurements of
\* non-empty batches
C14_Witness ==
    \E r \in Runs :
        /\ oracle[r].fail_prob = 10
        /\ Returned(r)
        /\ Len(Measurements(r)) >= 2
        /\ \A i \in 1..Len(Measurements(r)) : Len(Measurements(r)[i].results) > 0

\* the INTERPRET step of run r merges a successful measurement of candidate c
MeasuredOk(r, c) ==
    \E i \in 1..Len(raw[r].results) :
        raw[r].results[i].k = c /\ raw[r].results[i].v.ok

MeasuredValue(r, c) ==
    LET i == CHOOSE j \in 1..Len(raw[r].results) : raw[r].results[j].k = c
    IN  raw[r].results[i].v.value

\* C15: with belief_decay = 1.0 no step of an iteration changes a stored
\* value, except the INTERPRET step for a candidate and property it has a
\* new successful measurement for.
C15_NoDecayKeepsValues ==
    [][\A r \in Runs :
          DecayOf(r) = 10 =>
              \A cp \in Cands \X {"stability", "bandgap"} :
                  (/\ HasBelief(beliefs[r], cp[1], cp[2])
                   /\ ~(InterpretStep(r) /\ cp[2] = prop[r] /\ MeasuredOk(r, cp[1])))
                  => /\ HasBelief(beliefs'[r], cp[1], cp[2])
                     /\ BeliefOf(beliefs'[r], cp[1], cp[2])
                            = BeliefOf(beliefs[r], cp[1], cp[2])
      ]_vars

\* with belief_decay = 1.0 a run has interpreted a later iteration while it
\* held a non-zero value of the property that iteration did not measure
C15_Witness ==
    \E r \in Runs :
        /\ DecayOf(r) = 10
        /\ pc[r] = "stop"
        /\ step[r] >= 1
        /\ \E c \in Cands, p \in {"stability", "bandgap"} :
              /\ p # prop[r]
              /\ HasBelief(beliefs[r], c, p)
              /\ BeliefOf(beliefs[r], c, p) # 0

\* C20: the INTERPRET step applies the decay once, after the merge, to every
\* stored value of every property: afterwards a pair has a value if it had
\* one or was measured successfully, and the value is belief_decay times the
\* value measured in this iteration, or times the value stored before.
C20_DecayOnceAfterMerge ==
    [][\A r \in Runs :
          (InterpretStep(r) /\ pc'[r] = "stop") =>
              \A c \in Cands, p \in {"stability", "bandgap"} :
                  LET measured == p = prop[r] /\ MeasuredOk(r, c)
                  IN  /\ HasBelief(beliefs'[r], c, p)
                            <=> (measured \/ HasBelief(beliefs[r], c, p))
                      /\ HasBelief(beliefs'[r], c, p) =>
                            BeliefOf(beliefs'[r], c, p) * 10
                                = DecayOf(r) * (IF measured
                                                THEN MeasuredValue(r, c)
                                                ELSE BeliefOf(beliefs[r], c, p))
      ]_vars

\* with belief_decay = 0.5 a later iteration has been interpreted: a new
\* non-zero measurement was merged and a non-zero value of the other
\* property was already stored
C20_Witness ==
    \E r \in Runs :
        /\ DecayOf(r) = 5
        /\ pc[r] = "stop"
        /\ step[r] >= 1
        /\ \E c, d \in Cands, p \in {"stability", "bandgap"} :
              /\ p # prop[r]
              /\ HasBelief(beliefs[r], c, p)
              /\ BeliefOf(beliefs[r], c, p) # 0
              /\ MeasuredOk(r, d)
              /\ MeasuredValue(r, d) # 0

\* the property the claim gives iteration i: the two alternate from stability
Alternating(i) == IF i % 2 = 0 THEN "stability" ELSE "bandgap"

\* C16: the i-th DESIGN event of a run (i from 0) and the i-th call the run
\* makes to the Measurement Source name "stability" when i is even and
\* "bandgap" when i is odd, whatever the earlier outcomes were; no other
\* property name is designed, requested or logged.
C16_PropertiesAlternate ==
    \A r \in Runs :
        /\ \A i \in 1..Len(PayloadsOf(r, "DESIGN")) :
              PayloadsOf(r, "DESIGN")[i].target_property = Alternating(i - 1)
        /\ \A i \in 1..Len(oracleCalls[r]) :
              oracleCalls[r][i].property = Alternating(i - 1)
        /\ \A i \in 1..Len(PayloadsOf(r, "EXECUTE")) :
              PayloadsOf(r, "EXECUTE")[i].property = Alternating(i - 1)

\* a run has designed and requested three measurements, some of whose
\* results failed
C16_Witness ==
    \E r \in Runs :
        /\ Len(PayloadsOf(r, "DESIGN")) >= 3
        /\ Len(oracleCalls[r]) >= 3
        /\ \E j \in 1..Len(Measurements(r)[1].results) :
              ~Measurements(r)[1].results[j].v.ok

\* the EXECUTE step of run r is taken
ExecuteStep(r) == pc[r] = "execute" /\ pc'[r] # "execute"

\* C17: the EXECUTE step charges the budget by one before it issues the
\* call: the Measurement Source sees the charged budget, and when the call
\* raises, the caller's Budget is one higher than before the step although
\* no EXECUTE event was appended.
C17_ChargedBeforeCall ==
    [][\A r \in Runs :
          ExecuteStep(r) =>
              /\ Len(oracleCalls'[r]) = Len(oracleCalls[r]) + 1
              /\ oracleCalls'[r][Len(oracleCalls'[r])].tool_calls_used
                     = budget[r].tool_calls_used + 1
              /\ budget'[r].tool_calls_used = budget[r].tool_calls_used + 1
              /\ raised'[r] = "oracle" =>
                    /\ events' = events
                    /\ budget'[r].tool_calls_used
                           = budget0[r].tool_calls_used
                               + CountStep(load(run_id[r])', "EXECUTE") + 1
      ]_vars

\* the second call of a run to the Measurement Source raised
C17_Witness ==
    \E r \in Runs :
        /\ raised[r] = "oracle"
        /\ pc[r] = "failed"
        /\ CountStep(EventsOf(r), "EXECUTE") = 1
        /\ budget[r].tool_calls_used = budget0[r].tool_calls_used + 2

\* the events of log L before its UPDATE follow the cycle of the four steps
FollowsCycle(L) ==
    \A i \in 1..Len(L) :
        L[i].step # "UPDATE" => L[i].step = Cycle[((i - 1) % 4) + 1]

\* every event of run r is in the log before the next step begins
LoggedBeforeNextStep(r) ==
    Running(r) => Len(EventsOf(r)) = 4 * step[r] + AppendedInIteration(r)

\* the caller's Budget leaves no measurement call to the run
ExhaustedAtStart(r) == budget0[r].tool_calls_used >= budget0[r].max_tool_calls

\* C18 as stated: in every run's log the first event is HYPOTHESIS, the
\* events follow the cycle HYPOTHESIS, DESIGN, EXECUTE, INTERPRET, each
\* appended before the next step begins, and the UPDATE event directly
\* follows an INTERPRET event.
C18_Original ==
    \A r \in Runs :
        LET L == EventsOf(r)
        IN  /\ Len(L) >= 1 => L[1].step = "HYPOTHESIS"
            /\ FollowsCycle(L)
            /\ LoggedBeforeNextStep(r)
            /\ \A i \in 1..Len(L) :
                  L[i].step = "UPDATE" => i > 1 /\ L[i - 1].step = "INTERPRET"

\* C18, amended: a run whose Budget has a call left starts with a
\* HYPOTHESIS event, its events follow the cycle, each appended before the
\* next step begins, and its UPDATE event directly follows an INTERPRET
\* event; a run whose Budget is exhausted at the start logs the UPDATE
\* event alone.
C18_StepOrder ==
    \A r \in Runs :
        LET L == EventsOf(r)
        IN  /\ FollowsCycle(L)
            /\ LoggedBeforeNextStep(r)
            /\ ~ExhaustedAtStart(r) =>
                  /\ Len(L) >= 1 => L[1].step = "HYPOTHESIS"
                  /\ \A i \in 1..Len(L) :
                        L[i].step = "UPDATE" =>
                            i > 1 /\ L[i - 1].step = "INTERPRET" /\ i = Len(L)
            /\ ExhaustedAtStart(r) =>
                  \A i \in 1..Len(L) : i = 1 /\ L[i].step = "UPDATE"

\* a run of two full iterations has returned
C18_Witness ==
    \E r \in Runs :
        /\ Returned(r)
        /\ Len(EventsOf(r)) = 9
        /\ EventsOf(r)[8].step = "INTERPRET"
        /\ EventsOf(r)[9].step = "UPDATE"

\* log L has an INTERPRET payload without updated_beliefs or an UPDATE
\* payload without reason
Malformed(L) ==
    \E i \in 1..Len(L) :
        \/ L[i].step = "INTERPRET" /\ "updated_beliefs" \notin DOMAIN L[i].payload
        \/ L[i].step = "UPDATE" /\ "reason" \notin DOMAIN L[i].payload

\* what the log of a run is: malformed, or else completed (it has an UPDATE
\* event) or incomplete
KindOfLog(L) ==
    IF Malformed(L) THEN "malformed"
    ELSE IF \E i \in 1..Len(L) : L[i].step = "UPDATE" THEN "completed"
    ELSE "incomplete"

\* C19: what summarize_run returns for a run tells a malformed log, an
\* incomplete run and a completed run apart: no two logs of the same run
\* and length but of different kinds have the same summary, so a missing
\* updated_beliefs or reason is reported and not replaced by a default.
C19_MalformedPayloadReported ==
    replay.pc = "returned" =>
        \A L \in ReplayLogsOfLen(Len(replay.events)) :
            KindOfLog(L) # KindOfLog(replay.events) =>
                summarize_run(replay.run_id, L) # replay.result[1]

\* the keys of the record the Measurement Source wraps its results in
WrapperKeys == {"property", "results"}

\* C21: every EXECUTE payload has exactly the fields tool, property and
\* results, and the keys of payload.results are the candidate identifiers
\* of the batch, so payload.results[candidate] is the candidate's result
\* record: payload.results is not a record wrapped around the results, with
\* the keys "property" and "results" of its own.
C21_ResultsKeyedByCandidate ==
    \A r \in Runs :
        \A i \in 1..Len(PayloadsOf(r, "EXECUTE")) :
            /\ DOMAIN PayloadsOf(r, "EXECUTE")[i] = {"tool", "property", "results"}
            /\ DOMAIN PayloadsOf(r, "EXECUTE")[i].results \cap WrapperKeys = {}

\* the calls the caller's Budget leaves to run r
CallsLeftAtStart(r) ==
    IF budget0[r].max_tool_calls > budget0[r].tool_calls_used
    THEN budget0[r].max_tool_calls - budget0[r].tool_calls_used
    ELSE 0

\* the iterations run r has begun
Iterations(r) == CountStep(EventsOf(r), "HYPOTHESIS")

Ended(r) == pc[r] \in {"done", "failed"}

\* the calls the Budget of run r still allows
CallsLeft(r) ==
    IF budget[r].max_tool_calls > budget[r].tool_calls_used
    THEN budget[r].max_tool_calls - budget[r].tool_calls_used
    ELSE 0

\* a bound on the steps run r can still take: five per call left, and the
\* rest of the iteration it is in
StepsLeft(r) ==
    CASE pc[r] = "idle" -> 5 * CallsLeft(r) + 2
      [] pc[r] = "loop" -> 5 * CallsLeft(r) + 1
      [] pc[r] = "design" -> 5 * CallsLeft(r)
      [] pc[r] = "execute" -> 5 * CallsLeft(r) - 1
      [] pc[r] = "interpret" -> 5 * CallsLeft(r) + 3
      [] pc[r] = "stop" -> 5 * CallsLeft(r) + 2
      [] OTHER -> 0

\* C22: every run terminates: each step of a run lowers a bound on the
\* steps it has left, which is never negative and is zero only when the
\* run has ended; the run begins at most max_tool_calls - tool_calls_used
\* iterations (none when the Budget is exhausted at the start); and it
\* ends by returning, with an UPDATE event as the last of its log, unless
\* a Measurement Source call or a log append raised.
C22_Terminates ==
    [][\A r \in Runs :
          pc'[r] # pc[r] =>
              /\ StepsLeft(r)' < StepsLeft(r)
              /\ StepsLeft(r)' >= 0
              /\ StepsLeft(r)' = 0 <=> Ended(r)'
              /\ Iterations(r)' <= CallsLeftAtStart(r)
              /\ pc'[r] = "failed" => raised'[r] \in {"oracle", "append"}
              /\ pc'[r] = "done" =>
                    /\ raised'[r] = None
                    /\ EventsOf(r)'[Len(EventsOf(r)')].step = "UPDATE"
      ]_vars

\* a run whose Budget was charged before it started returned after as many
\* iterations as the Budget left calls
C22_Witness ==
    \E r \in Runs :
        /\ Returned(r)
        /\ budget0[r].tool_calls_used >= 1
        /\ CallsLeftAtStart(r) >= 2
        /\ Iterations(r) = CallsLeftAtStart(r)

\* the i-th EXECUTE event of run r measured property p and has an ok
\* result for candidate c
MeasuredOkIn(r, i, p, c) ==
    LET e == PayloadsOf(r, "EXECUTE")[i]
    IN  /\ e.property = p
        /\ \E j \in 1..Len(e.results.results) :
              /\ e.results.results[j].k = c
              /\ e.results.results[j].v.ok

\* run r has, in an even-indexed and in an odd-indexed iteration, EXECUTE
\* events with an ok stability and an ok bandgap result for candidate c
MeasuredBoth(r, c) ==
    \E a, b \in 1..Len(PayloadsOf(r, "EXECUTE")) :
        /\ (a - 1) % 2 = 0
        /\ (b - 1) % 2 = 1
        /\ MeasuredOkIn(r, a, "stability", c)
        /\ MeasuredOkIn(r, b, "bandgap", c)

\* C23: a candidate is fully observed only after an ok stability result
\* and an ok bandgap result for it in EXECUTE events of the same run; the
\* first INTERPRET event of a run has an empty updated_beliefs; and an
\* UPDATE event with reason constraints_met comes after such a pair of
\* EXECUTE events for one candidate.
C23_BothPropertiesFirst ==
    \A r \in Runs :
        /\ \A c \in FullyObservedCands(r) : MeasuredBoth(r, c)
        /\ Len(PayloadsOf(r, "INTERPRET")) >= 1 =>
              PayloadsOf(r, "INTERPRET")[1].updated_beliefs = << >>
        /\ \A i \in 1..Len(PayloadsOf(r, "INTERPRET")) :
              \A j \in 1..Len(PayloadsOf(r, "INTERPRET")[i].updated_beliefs) :
                  MeasuredBoth(r, PayloadsOf(r, "INTERPRET")[i].updated_beliefs[j].k)
        /\ \A i \in 1..Len(PayloadsOf(r, "UPDATE")) :
              PayloadsOf(r, "UPDATE")[i].reason = "constraints_met" =>
                  /\ Len(PayloadsOf(r, "EXECUTE")) >= 2
                  /\ \E c \in Cands : MeasuredBoth(r, c)

\* a run returned with constraints_met from a Measurement Source that also
\* failed for some candidates
C23_Witness ==
    \E r \in Runs :
        /\ Returned(r)
        /\ ReasonOf(r) = "constraints_met"
        /\ oracle[r].fail_prob > 0
        /\ PayloadsOf(r, "INTERPRET")[1].updated_beliefs = << >>

====
